---- MODULE Spec2Model ----
(***************************************************************************)
(* Model of scrape_social_projects.py: the label-driven record parser,     *)
(* the block extractor, the pagination loop of main and the grouped output *)
(* built after the loop.                                                   *)
(*                                                                         *)
(* Text is a sequence of tokens.  A token is a run of characters that the  *)
(* program's regular expressions and string methods never split: a label   *)
(* ("County:"), a single digit, a word, a slash, or one whitespace         *)
(* character ("NL" is a newline, "SP" a space).  Tokens are written next   *)
(* to each other with nothing in between, so <<"3","4">> is the text "34". *)
(* Python's None is the empty tuple.                                       *)
(***************************************************************************)
EXTENDS Integers, Sequences, FiniteSets, TLC

None == <<>>

(***************************************************************************)
(* Characters and strings                                                  *)
(***************************************************************************)
IsWS(t) == t \in {"NL", "SP"}

DigitValue ==
  [d \in {"0", "1", "2", "3", "4", "5", "6", "7", "8", "9"} |->
     CASE d = "0" -> 0 [] d = "1" -> 1 [] d = "2" -> 2 [] d = "3" -> 3
       [] d = "4" -> 4 [] d = "5" -> 5 [] d = "6" -> 6 [] d = "7" -> 7
       [] d = "8" -> 8 [] d = "9" -> 9]

IsDigit(t) == t \in DOMAIN DigitValue

\* the tokens of the model in the order of Python's str comparison
TokenOrder ==
  << "NL", "SP", "&", "(2)", "(3)", "/",
     "0", "1", "2", "3", "4", "5", "6", "7", "8", "9",
     "Alpha", "Behavioural", "Beta", "COUNTY:", "Category:", "Cork",
     "County:", "Dublin", "Group", "Individual", "Page", "Project type:",
     "School:", "Sciences", "Social", "Stand number:", "StX", "StY",
     "Technology", "Watch", "of", "rd", "tba", "video" >>

TokenRank(t) == CHOOSE i \in 1..Len(TokenOrder) : TokenOrder[i] = t

\* a < b for two str values that agree before position i
RECURSIVE StrLessFrom(_, _, _)
StrLessFrom(a, b, i) ==
  IF i > Len(b) THEN FALSE
  ELSE IF i > Len(a) THEN TRUE
  ELSE IF a[i] = b[i] THEN StrLessFrom(a, b, i + 1)
  ELSE TokenRank(a[i]) < TokenRank(b[i])

StrLess(a, b) == StrLessFrom(a, b, 1)

\* the n-th smallest element of a set of numbers
Nth(S, n) == CHOOSE i \in S : Cardinality({j \in S : j <= i}) = n

NonWS(s) == {i \in 1..Len(s) : ~IsWS(s[i])}

\* str.strip()
Strip(s) ==
  IF NonWS(s) = {} THEN <<>>
  ELSE SubSeq(s, Nth(NonWS(s), 1), Nth(NonWS(s), Cardinality(NonWS(s))))

\* the first and the last position of every maximal run without whitespace
WordStarts(s) == {i \in NonWS(s) : i = 1 \/ IsWS(s[i - 1])}
WordEnds(s) == {i \in NonWS(s) : i = Len(s) \/ IsWS(s[i + 1])}

\* str.split(): the maximal runs without whitespace, in order
Split(s) ==
  [n \in 1..Cardinality(WordStarts(s)) |->
     SubSeq(s, Nth(WordStarts(s), n), Nth(WordEnds(s), n))]

\* the length of " ".join(words[1..k]) followed by a space
RECURSIVE JoinedLen(_, _)
JoinedLen(words, k) ==
  IF k = 0 THEN 0 ELSE JoinedLen(words, k - 1) + Len(words[k]) + 1

\* " ".join(words)
Join(words) ==
  IF Len(words) = 0 THEN <<>>
  ELSE [p \in 1..(JoinedLen(words, Len(words)) - 1) |->
          LET k == CHOOSE j \in 1..Len(words) :
                     JoinedLen(words, j - 1) < p /\ p <= JoinedLen(words, j)
          IN IF p = JoinedLen(words, k) THEN "SP"
             ELSE words[k][p - JoinedLen(words, k - 1)]]

clean_line(s) == Join(Split(Strip(s)))

\* str.splitlines(): the text between newlines; a final newline ends the
\* last line and starts no new one
Newlines(s) == {i \in 1..Len(s) : s[i] = "NL"}

SplitLines(s) ==
  LET ends == Newlines(s) \cup (IF s # <<>> /\ s[Len(s)] # "NL"
                                THEN {Len(s) + 1} ELSE {})
  IN [n \in 1..Cardinality(ends) |->
        SubSeq(s, IF n = 1 THEN 1 ELSE Nth(ends, n - 1) + 1, Nth(ends, n) - 1)]

NonBlank(ln) == Strip(ln) # <<>>

\* [ln.strip() for ln in lines if ln.strip()]
NonEmptyLines(ls) ==
  [n \in 1..Len(SelectSeq(ls, NonBlank)) |-> Strip(SelectSeq(ls, NonBlank)[n])]

\* int() of the first n digits of a run of ASCII digits
RECURSIVE IntUpTo(_, _)
IntUpTo(ds, n) ==
  IF n = 0 THEN 0 ELSE 10 * IntUpTo(ds, n - 1) + DigitValue[ds[n]]

IntOf(ds) == IntUpTo(ds, Len(ds))

\* int() raises no ValueError
IsInt(ds) == ds # <<>> /\ \A i \in 1..Len(ds) : IsDigit(ds[i])

(***************************************************************************)
(* Field patterns                                                          *)
(***************************************************************************)
FieldKeys == <<"stand_number", "county", "school", "category", "project_type">>

\* the label of each pattern; re.IGNORECASE makes every casing of it match
LabelForms ==
  [ stand_number |-> {"Stand number:"},
    county       |-> {"County:", "COUNTY:"},
    school       |-> {"School:"},
    category     |-> {"Category:"},
    project_type |-> {"Project type:"} ]

\* the index after the run \s* that follows position i
RECURSIVE SkipWS(_, _)
SkipWS(s, i) == IF i <= Len(s) /\ IsWS(s[i]) THEN SkipWS(s, i + 1) ELSE i

\* the last index of the run of non-newline characters starting at p
RECURSIVE LineEnd(_, _)
LineEnd(s, p) ==
  IF p + 1 <= Len(s) /\ s[p + 1] # "NL" THEN LineEnd(s, p + 1) ELSE p

\* the last index of the run [0-9]+ starting at p
RECURSIVE DigitsEnd(_, _)
DigitsEnd(s, p) ==
  IF p + 1 <= Len(s) /\ IsDigit(s[p + 1]) THEN DigitsEnd(s, p + 1) ELSE p

\* where (.+) starts when "Label:\s*(.+)" is matched at the label at i:
\* \s* is greedy and gives characters back until "." has one to match
CaptureStart(s, i) ==
  LET j == SkipWS(s, i + 1)
      back == {q \in (i + 1)..(j - 1) : s[q] = "SP"}
  IN IF j <= Len(s) THEN j
     ELSE IF back # {} THEN CHOOSE q \in back : \A r \in back : r <= q
     ELSE 0

\* re.search of "Label:\s*(.+)": group(1) of the leftmost match, or None
RECURSIVE SearchText(_, _, _)
SearchText(s, key, i) ==
  IF i > Len(s) THEN None
  ELSE IF s[i] \in LabelForms[key] /\ CaptureStart(s, i) # 0
  THEN LET p == CaptureStart(s, i) IN <<SubSeq(s, p, LineEnd(s, p))>>
  ELSE SearchText(s, key, i + 1)

\* re.search of "Label:\s*([0-9]+)": group(1) of the leftmost match, or None
RECURSIVE SearchDigits(_, _, _)
SearchDigits(s, key, i) ==
  IF i > Len(s) THEN None
  ELSE IF s[i] \in LabelForms[key]
          /\ SkipWS(s, i + 1) <= Len(s) /\ IsDigit(s[SkipWS(s, i + 1)])
  THEN LET p == SkipWS(s, i + 1) IN <<SubSeq(s, p, DigitsEnd(s, p))>>
  ELSE SearchDigits(s, key, i + 1)

\* patterns that match without their label, capturing nothing
FIELD_PATTERNS_Optional(key, s) ==
  IF key = "stand_number" THEN SearchDigits(s, key, 1)
  ELSE IF SearchText(s, key, 1) = None THEN << <<>> >>
  ELSE SearchText(s, key, 1)

\* _FIELD_PATTERNS[key].search(text): <<group(1)>> or None
FIELD_PATTERNS(key, s) ==
  IF key = "stand_number" THEN SearchDigits(s, key, 1)
  ELSE SearchText(s, key, 1)

(***************************************************************************)
(* parse_project_block                                                     *)
(***************************************************************************)
parse_project_block(raw) ==
  LET text_block == Strip(raw)
      lines == NonEmptyLines(SplitLines(text_block))
      m == [k \in {FieldKeys[i] : i \in 1..Len(FieldKeys)} |->
              FIELD_PATTERNS(k, text_block)]
      extracted == [k \in DOMAIN m |-> clean_line(m[k][1])]
  IN IF text_block = <<>> THEN None
     ELSE IF lines = <<>> THEN None
     ELSE IF \E k \in DOMAIN m : m[k] = None THEN None
     ELSE IF ~IsInt(extracted["stand_number"]) THEN None
     ELSE [ title        |-> clean_line(lines[1]),
            stand_number |-> IntOf(extracted["stand_number"]),
            county       |-> extracted["county"],
            school       |-> extracted["school"],
            category     |-> extracted["category"],
            project_type |-> extracted["project_type"] ]

\* _COUNTER_RE.search of "(\d+)\s*/\s*(\d+)": the leftmost match
RECURSIVE SearchCounter(_, _)
SearchCounter(s, i) ==
  IF i > Len(s) THEN None
  ELSE LET e == DigitsEnd(s, i)
           slash == SkipWS(s, e + 1)
           k == SkipWS(s, slash + 1)
       IN IF /\ IsDigit(s[i])
             /\ slash <= Len(s) /\ s[slash] = "/"
             /\ k <= Len(s) /\ IsDigit(s[k])
          THEN << IntOf(SubSeq(s, i, e)), IntOf(SubSeq(s, k, DigitsEnd(s, k))) >>
          ELSE SearchCounter(s, i + 1)

\* parse_counter(counter_text or ""): (current, total) or None
parse_counter(counter_text) == SearchCounter(counter_text, 1)

(***************************************************************************)
(* Page helpers.  What the page does during one call is the call's input:  *)
(* one outcome per selector candidate, in list order.                      *)
(***************************************************************************)
\* first_visible_text: the stripped text of the first candidate that is
\* present, becomes visible and has non-empty text; None when none does
RECURSIVE first_visible_text(_)
first_visible_text(view) ==
  IF view = <<>> THEN None
  ELSE IF Head(view).kind = "text" /\ Strip(Head(view).text) # <<>>
  THEN Strip(Head(view).text)
  ELSE first_visible_text(Tail(view))

\* a loop that lets the error of a candidate end the call
RECURSIVE NextAttempts_Propagate(_, _)
NextAttempts_Propagate(view, i) ==
  IF i > Len(view) THEN [moved |-> FALSE, tried |-> Len(view), clicked |-> <<>>]
  ELSE IF view[i] = "clicked"
  THEN [moved |-> TRUE, tried |-> i, clicked |-> <<i>>]
  ELSE IF view[i] = "error"
  THEN [moved |-> FALSE, tried |-> i, clicked |-> <<>>]
  ELSE NextAttempts_Propagate(view, i + 1)

\* the loop of lines 118-130 from candidate i on: the value returned, the
\* number of candidates tried and the candidates that were clicked.  A
\* candidate that is absent (line 122), times out (line 126) or raises
\* (line 128) is passed over; the first one clicked ends the call (line 125)
RECURSIVE NextAttempts(_, _)
NextAttempts(view, i) ==
  IF i > Len(view) THEN [moved |-> FALSE, tried |-> Len(view), clicked |-> <<>>]
  ELSE IF view[i] = "clicked"
  THEN [moved |-> TRUE, tried |-> i, clicked |-> <<i>>]
  ELSE NextAttempts(view, i + 1)

\* click_first_available: moved is the value returned
click_first_available(view) == NextAttempts(view, 1)

\* the five labels looked for by hasAllLabels (String.includes, exact case)
RequiredLabels ==
  {"Stand number:", "County:", "School:", "Category:", "Project type:"}

hasAllLabels(t) == \A l \in RequiredLabels : \E i \in 1..Len(t) : t[i] = l

\* the ancestor walk of page.evaluate: chain[1] is the anchor element,
\* chain[i+1] its i-th ancestor; at most 8 elements are looked at
AncestorDepth == 8

RECURSIVE AncestorSearch(_, _)
AncestorSearch(chain, i) ==
  IF i > AncestorDepth \/ i > Len(chain) THEN None
  ELSE IF hasAllLabels(chain[i]) THEN chain[i]
  ELSE AncestorSearch(chain, i + 1)

\* a first loop that ends at the first anchor that fails
RECURSIVE Candidates_Abort(_)
Candidates_Abort(anchors) ==
  IF anchors = <<>> THEN <<>>
  ELSE LET node == Head(anchors)
           block == AncestorSearch(node.chain, 1)
       IN IF node.kind = "ok" /\ block # None
          THEN <<block>> \o Candidates_Abort(Tail(anchors))
          ELSE <<>>

\* the first loop of get_project_blocks: the blocks of the anchors that
\* give a handle, evaluate without error and have a qualifying ancestor
RECURSIVE Candidates(_)
Candidates(anchors) ==
  IF anchors = <<>> THEN <<>>
  ELSE LET node == Head(anchors)
           block == AncestorSearch(node.chain, 1)
       IN IF node.kind = "ok" /\ block # None
          THEN <<block>> \o Candidates(Tail(anchors))
          ELSE Candidates(Tail(anchors))

\* a second loop that remembers the texts as they were before strip()
RECURSIVE Deduplicate_Raw(_, _)
Deduplicate_Raw(candidates, seen) ==
  IF candidates = <<>> THEN <<>>
  ELSE LET c == Strip(Head(candidates))
       IN IF c # <<>> /\ Head(candidates) \notin seen
          THEN <<c>> \o Deduplicate_Raw(Tail(candidates),
                                        seen \cup {Head(candidates)})
          ELSE Deduplicate_Raw(Tail(candidates), seen)

\* the second loop of get_project_blocks: strip, drop empty and seen texts
RECURSIVE Deduplicate(_, _)
Deduplicate(candidates, seen) ==
  IF candidates = <<>> THEN <<>>
  ELSE LET c == Strip(Head(candidates))
       IN IF c # <<>> /\ c \notin seen
          THEN <<c>> \o Deduplicate(Tail(candidates), seen \cup {c})
          ELSE Deduplicate(Tail(candidates), seen)

get_project_blocks(anchors) == Deduplicate(Candidates(anchors), {})

(***************************************************************************)
(* The aggregation map and the loop's tests                                *)
(***************************************************************************)
SOCIAL_CATEGORY ==
  <<"Social", "SP", "&", "SP", "Behavioural", "SP", "Sciences">>

\* a filter that lets every category through
MatchesFilter_Always(p) == TRUE

\* line 223: pr.category.strip() != SOCIAL_CATEGORY skips the project
MatchesFilter(p) == Strip(p.category) = SOCIAL_CATEGORY

\* a key built with the county in the place of the school
KeyOf_County(p) == <<p.title, p.stand_number, p.county>>

\* line 225
KeyOf(p) == <<p.title, p.stand_number, p.school>>

\* a dict assignment that never finds the key
DictSet_Append(d, key, val) == Append(d, [key |-> key, val |-> val])

\* d[key] = val on a dict, which keeps its keys in insertion order: an
\* existing key keeps its place and gets the new value
DictSet(d, key, val) ==
  IF \E i \in 1..Len(d) : d[i].key = key
  THEN [i \in 1..Len(d) |->
          IF d[i].key = key THEN [key |-> key, val |-> val] ELSE d[i]]
  ELSE Append(d, [key |-> key, val |-> val])

\* a loop body that deletes the stored project of a key whose new project
\* fails the filter
Upsert_Evict(d, p) ==
  IF p = None THEN d
  ELSE IF ~MatchesFilter(p)
  THEN SelectSeq(d, LAMBDA e : e.key # KeyOf(p))
  ELSE DictSet(d, KeyOf(p), p)

\* a loop body that stores nothing
Upsert_Nothing(d, p) == d

\* lines 219-226: the body of the for loop for a parse result p
Upsert(d, p) ==
  IF p = None THEN d
  ELSE IF ~MatchesFilter(p) THEN d
  ELSE DictSet(d, KeyOf(p), p)

\* a for loop that is left after any number of blocks
LoopOver_Early(bs, i) == TRUE

\* line 218: the for loop has handled every block
LoopOver(bs, i) == i > Len(bs)

\* line 233: a tuple is true, None is not
CounterKnown(c) == c # None

\* a stall test that never fires
Stalled_Never(last, c) == FALSE

\* line 235
Stalled(last, c) == last = c

\* a total test that needs current above total
TotalReached_Strict(c) == c[1] > c[2]

\* line 239
TotalReached(c) == c[1] >= c[2]

\* line 248
SafetyCeiling == 500

\* a safety test that never fires
SafetyExceeded_Never(n) == FALSE

SafetyExceeded(n) == n > SafetyCeiling

(***************************************************************************)
(* After the loop: grouping, sorting and the three outputs                 *)
(***************************************************************************)
\* list(all_projects.values())
RECURSIVE Values(_)
Values(d) == IF d = <<>> THEN <<>> ELSE <<Head(d).val>> \o Values(Tail(d))

\* sections.setdefault(pr.project_type, []).append(pr), for each project
RECURSIVE GroupByType(_, _)
GroupByType(projects, secs) ==
  IF projects = <<>> THEN secs
  ELSE LET p == Head(projects)
           k == p.project_type
       IN GroupByType(Tail(projects),
            IF \E i \in 1..Len(secs) : secs[i].key = k
            THEN [i \in 1..Len(secs) |->
                    IF secs[i].key = k
                    THEN [key |-> k, items |-> Append(secs[i].items, p)]
                    ELSE secs[i]]
            ELSE Append(secs, [key |-> k, items |-> <<p>>]))

\* sort keys compared with "not greater" where "less" is meant
KeyLess_OrEqual(by, x, y) ==
  IF by = "stand_number" THEN x.stand_number <= y.stand_number
  ELSE ~StrLess(y.key, x.key)

\* the sort keys: line 264 (key=lambda x: x.stand_number) and lines 273,
\* 286, 304 (key=lambda kv: kv[0])
KeyLess(by, x, y) ==
  IF by = "stand_number" THEN x.stand_number < y.stand_number
  ELSE StrLess(x.key, y.key)

\* list.sort / sorted: stable, x goes after every element not greater
RECURSIVE InsertSorted(_, _, _)
InsertSorted(x, sorted, by) ==
  IF sorted = <<>> THEN <<x>>
  ELSE IF KeyLess(by, x, sorted[Len(sorted)])
  THEN Append(InsertSorted(x, SubSeq(sorted, 1, Len(sorted) - 1), by),
              sorted[Len(sorted)])
  ELSE Append(sorted, x)

RECURSIVE StableSort(_, _)
StableSort(xs, by) ==
  IF xs = <<>> THEN <<>>
  ELSE InsertSorted(xs[Len(xs)], StableSort(SubSeq(xs, 1, Len(xs) - 1), by), by)

\* lines 263-264
SortSections(secs) ==
  [i \in 1..Len(secs) |->
     [key |-> secs[i].key, items |-> StableSort(secs[i].items, "stand_number")]]

\* lines 286-297: one row per project, section by section
RECURSIVE CsvRows(_)
CsvRows(secs) ==
  IF secs = <<>> THEN <<>>
  ELSE [i \in 1..Len(Head(secs).items) |->
          LET p == Head(secs).items[i]
          IN [ project_type |-> Head(secs).key,
               stand_number |-> p.stand_number,
               title        |-> p.title,
               county       |-> p.county,
               school       |-> p.school,
               category     |-> p.category ]] \o CsvRows(Tail(secs))

RECURSIVE TotalItems(_)
TotalItems(secs) ==
  IF secs = <<>> THEN 0 ELSE Len(Head(secs).items) + TotalItems(Tail(secs))

\* lines 300-306: the printed lines
ConsoleLines(secs) ==
  << <<"Saved", TotalItems(secs), SOCIAL_CATEGORY>>,
     <<"social_projects.json">>, <<"social_projects.csv">> >>
  \o [i \in 1..Len(secs) |->
        <<secs[i].key, Len(secs[i].items), secs[i].items[1].stand_number,
          secs[i].items[Len(secs[i].items)].stand_number>>]

(***************************************************************************)
(* The page: the texts, counters and controls it can show                  *)
(***************************************************************************)
\* the most anchors one call of get_project_blocks finds
MaxAnchors == 2

\* the most advance clicks the page of Spec accepts
MaxClicks == 3

\* the most advance clicks the pages of SpecAgg and SpecView accept
MaxAggClicks == 1

\* the most anchors of one call in the specification of get_project_blocks
MaxNodes == 3

\* the total shown by the counter
MaxTotal == 3

\* the number of iterations whose counter readings are kept in reads
MaxTrace == 4

\* the most advance clicks the page of SpecFair accepts
CeilingClicks == 502

\* a project card as the page prints it (the docstring of parse_project_block)
Card(title, stand, county, school, category, ptype) ==
  title \o <<"NL", "Stand number:", "NL">> \o stand
        \o <<"NL", "County:", "NL">> \o county
        \o <<"NL", "School:", "NL">> \o school
        \o <<"NL", "Category:", "NL">> \o category
        \o <<"NL", "Project type:", "NL">> \o ptype
        \o <<"NL", "Watch", "SP", "video">>

\* an anchor whose element is the label and whose parent is the card
Anchor(text) == [kind |-> "ok", chain |-> << <<"Stand number:">>, text >>]

CardA  == Card(<<"Alpha">>, <<"3">>, <<"Dublin">>, <<"StX">>,
               SOCIAL_CATEGORY, <<"Group", "SP", "(2)">>)
\* the card of CardA's project on a later page: another county
CardA2 == Card(<<"Alpha">>, <<"0", "3">>, <<"Cork">>, <<"StX">>,
               SOCIAL_CATEGORY, <<"Group", "SP", "(2)">>)
\* the same stand number and section as CardA, another project
CardB  == Card(<<"Beta">>, <<"3">>, <<"Dublin">>, <<"StX">>,
               SOCIAL_CATEGORY, <<"Group", "SP", "(2)">>)
CardC  == Card(<<"Beta">>, <<"1">>, <<"Cork">>, <<"StY">>,
               SOCIAL_CATEGORY, <<"Group", "SP", "(2)">>)
CardD  == Card(<<"Alpha">>, <<"7">>, <<"Dublin">>, <<"StY">>,
               SOCIAL_CATEGORY, <<"Individual">>)
\* CardA's key in another category
CardT  == Card(<<"Alpha">>, <<"3">>, <<"Dublin">>, <<"StX">>,
               <<"Technology">>, <<"Group", "SP", "(2)">>)

ControlFeed == {Anchor(CardA), Anchor(CardB)}

FairFeed == {Anchor(CardA)}

\* the cards of one key, a card of another section and a failing anchor
AggFeed ==
  { Anchor(CardA), Anchor(CardA2), Anchor(CardT), Anchor(CardD),
    [kind |-> "error", chain |-> <<>>] }

\* cards of two sections, with equal and with smaller stand numbers
ViewFeed == {Anchor(CardA), Anchor(CardB), Anchor(CardC), Anchor(CardD)}

\* an anchor k - 1 levels below the card: chain[k] is the card
DeepAnchor(text, k) ==
  [kind |-> "ok",
   chain |-> [i \in 1..k |-> IF i = k THEN text ELSE <<"Stand number:">>]]

\* anchors that give a block (the card, the card with whitespace around it,
\* a card at the last depth looked at, a card inside a list of cards) and
\* anchors that give none (page.evaluate raises, element_handle() is None,
\* no ancestor has the labels, the card is beyond the depth looked at)
BlockFeed ==
  { Anchor(CardA),
    Anchor(<<"NL", "SP">> \o CardA \o <<"SP", "NL">>),
    Anchor(CardB),
    DeepAnchor(CardC, AncestorDepth),
    [kind |-> "ok", chain |-> << <<"Stand number:">>, CardD, CardD \o <<"NL">> \o CardA >>],
    [kind |-> "error", chain |-> <<>>],
    [kind |-> "nohandle", chain |-> <<>>],
    [kind |-> "ok", chain |-> << <<"Stand number:">>, <<"Stand number:", "NL", "3">> >>],
    DeepAnchor(CardC, AncestorDepth + 1) }

AnchorLists(feed, n) == UNION {[1..k -> feed] : k \in 0..n}

DigitOf(n) == CHOOSE d \in DOMAIN DigitValue : DigitValue[d] = n

\* the counter as the page prints it, e.g. "Page 1 / 3"
CounterText(current, total) ==
  <<"Page", "SP", DigitOf(current), "SP", "/", "SP", DigitOf(total)>>

CounterTexts == {CounterText(c, MaxTotal) : c \in 1..MaxTotal} \cup {<<"Page">>}

\* line 193-197
NumCounterSelectors == 3

\* line 200-208
NumNextSelectors == 7

ProbeFailures ==
  { [kind |-> "absent", text |-> <<>>], [kind |-> "timeout", text |-> <<>>],
    [kind |-> "error", text |-> <<>>], [kind |-> "text", text |-> <<"SP">>] }

\* candidates before k fail with f, candidate k shows text t, the rest are
\* absent; k beyond the list: no candidate shows a text
CounterView(k, f, t) ==
  [i \in 1..NumCounterSelectors |->
     IF i < k THEN f
     ELSE IF i = k THEN [kind |-> "text", text |-> t]
     ELSE [kind |-> "absent", text |-> <<>>]]

CounterViews ==
  {CounterView(k, f, t) :
     k \in 1..NumCounterSelectors, f \in ProbeFailures, t \in CounterTexts}
  \cup {CounterView(NumCounterSelectors + 1, f, <<>>) : f \in ProbeFailures}

BlindViews == {CounterView(NumCounterSelectors + 1, f, <<>>) : f \in ProbeFailures}

\* candidates before k fail with f, candidate k is clicked
ClickView(k, f) ==
  [i \in 1..NumNextSelectors |->
     IF i < k THEN f ELSE IF i = k THEN "clicked" ELSE "absent"]

ClickFailures == {"absent", "timeout", "error"}

ClickViews ==
  {ClickView(k, f) : k \in 1..(NumNextSelectors + 1), f \in ClickFailures}

\* what one candidate of click_first_available can meet
ClickOutcomes == {"clicked"} \cup ClickFailures

\* every page: any outcome for any candidate
AllClickViews == [1..NumNextSelectors -> ClickOutcomes]

DeadViews == {ClickView(NumNextSelectors + 1, f) : f \in ClickFailures}

\* the texts that get_project_blocks can return on the pages of the model
FeedTexts ==
  {Strip(a.chain[i]) :
     a \in {x \in ControlFeed \cup AggFeed \cup ViewFeed \cup FairFeed :
              x.kind = "ok"},
     i \in 1..2}

(***************************************************************************)
(* State                                                                   *)
(***************************************************************************)
VARIABLES
  pc,             \* the statement of main that runs next
  all_projects,   \* the dict of line 211, as its items in insertion order
  last_counter,   \* line 212
  safety_clicks,  \* line 213
  blocks,         \* line 217
  bi,             \* the position of the for loop of line 218 in blocks
  b,              \* the loop variable of line 218
  pr,             \* line 219
  counter,        \* line 230
  exit_line,      \* the line of the break that ended the loop, 0 before
  sections,       \* lines 259-264, as items in insertion order
  json_sections,  \* the "sections" object written by line 277
  csv_rows,       \* the rows written by lines 286-297
  console,        \* the lines printed by lines 301-306
  stand_nodes,    \* line 143, in the last call of get_project_blocks
  next_call,      \* what the call of line 243 did, None once line 247 is reached
  page_anchors,   \* the anchors the page can show
  page_nodes,     \* the most anchors the page shows to one call of line 143
  page_nexts,     \* what the page can show to click_first_available
  page_counters,  \* what the page can show to first_visible_text
  page_limit,     \* the number of advance clicks the page accepts
  reads,          \* the counters read so far, one per iteration
  click_calls     \* the number of calls of click_first_available

vars ==
  << pc, all_projects, last_counter, safety_clicks, blocks, bi, b, pr, counter,
     exit_line, sections, json_sections, csv_rows, console, stand_nodes,
     next_call, page_anchors, page_nodes, page_nexts, page_counters,
     page_limit, reads, click_calls >>

page == <<page_anchors, page_nodes, page_nexts, page_counters, page_limit>>
outputs == <<sections, json_sections, csv_rows, console>>

\* lines 211-213
Start ==
  /\ pc = "extract"
  /\ all_projects = <<>>
  /\ last_counter = None
  /\ safety_clicks = 0
  /\ blocks = <<>> /\ bi = 1 /\ b = None /\ pr = None /\ counter = None
  /\ exit_line = 0
  /\ sections = <<>> /\ json_sections = <<>> /\ csv_rows = <<>>
  /\ console = <<>>
  /\ reads = <<>> /\ click_calls = 0
  /\ stand_nodes = <<>> /\ next_call = None
  /\ page_nexts = ClickViews

Init ==
  /\ Start
  /\ page_anchors = ControlFeed
  /\ page_nodes = MaxAnchors
  /\ page_counters = CounterViews
  /\ page_limit = MaxClicks

InitAgg ==
  /\ Start
  /\ page_anchors = AggFeed
  /\ page_nodes = MaxAnchors
  /\ page_counters = BlindViews
  /\ page_limit = MaxAggClicks

InitView ==
  /\ Start
  /\ page_anchors = ViewFeed
  /\ page_nodes = MaxAnchors
  /\ page_counters = BlindViews
  /\ page_limit = MaxAggClicks

InitFair ==
  /\ Start
  /\ page_anchors = FairFeed
  /\ page_nodes = 1
  /\ page_counters = CounterViews
  /\ page_limit = CeilingClicks

(***************************************************************************)
(* parse_project_block on synthetic blocks                                 *)
(***************************************************************************)
\* a labelled field as printed: the label, a separator and the value; a
\* missing label leaves the separator and the value
Field(label, sep, value) == label \o sep \o value

\* a block of a title line and five field lines in the order of the page;
\* labels[i] is <<>> when label i is missing
SynthBlock(labels, sep, stand, county, category, ptype) ==
  <<"Alpha", "NL">>
    \o Field(labels[1], sep, stand) \o <<"NL">>
    \o Field(labels[2], sep, county) \o <<"NL">>
    \o Field(labels[3], sep, <<"StX">>) \o <<"NL">>
    \o Field(labels[4], sep, category) \o <<"NL">>
    \o Field(labels[5], sep, ptype) \o <<"NL", "Watch", "SP", "video", "NL">>

PageLabels ==
  << <<"Stand number:">>, <<"County:">>, <<"School:">>, <<"Category:">>,
     <<"Project type:">> >>

\* all five labels, the county label in capitals, or one label missing
SynthLabels ==
  {PageLabels, [PageLabels EXCEPT ![2] = <<"COUNTY:">>]}
  \cup {[PageLabels EXCEPT ![k] = <<>>] : k \in 1..5}

SynthSeps == {<<"NL">>, <<"SP">>, <<>>}

SynthStands == {<<"3">>, <<"0", "3">>, <<"tba">>, <<"3", "rd">>, <<>>}

SynthCounties == {<<"Dublin">>, <<"SP", "Cork", "SP", "SP", "of">>, <<>>}

SynthTypes == {<<"Group", "SP", "(2)">>, <<"Group", "SP", "(3)">>, <<"Individual">>}

SynthBlocks ==
  {SynthBlock(l, sep, st, co, ca, pt) :
     l \in SynthLabels, sep \in SynthSeps, st \in SynthStands,
     co \in SynthCounties, ca \in {SOCIAL_CATEGORY, <<"Technology">>},
     pt \in SynthTypes}

\* the dict before the block is handled: empty, or holding CardA's project
SynthDicts ==
  { <<>>, DictSet(<<>>, KeyOf(parse_project_block(CardA)),
                  parse_project_block(CardA)) }

\* line 219: parse_project_block(b) for every block text of the model
ParseOf == [t \in FeedTexts \cup SynthBlocks |-> parse_project_block(t)]

\* the for loop of line 218 about to handle one synthetic block
InitParse ==
  /\ pc = "parse"
  /\ blocks \in {<<t>> : t \in SynthBlocks}
  /\ bi = 1 /\ b = None /\ pr = None
  /\ all_projects \in SynthDicts
  /\ last_counter = None /\ safety_clicks = 0 /\ counter = None
  /\ exit_line = 0
  /\ sections = <<>> /\ json_sections = <<>> /\ csv_rows = <<>>
  /\ console = <<>>
  /\ reads = <<>> /\ click_calls = 0
  /\ stand_nodes = <<>> /\ next_call = None
  /\ page_anchors = {}
  /\ page_nodes = 0
  /\ page_nexts = DeadViews
  /\ page_counters = BlindViews
  /\ page_limit = 0

\* get_project_blocks about to be called on a page of BlockFeed
InitBlocks ==
  /\ Start
  /\ page_anchors = BlockFeed
  /\ page_nodes = MaxNodes
  /\ page_counters = BlindViews
  /\ page_limit = 0

\* click_first_available about to be called on one of the pages
InitClick ==
  /\ pc = "click"
  /\ all_projects = <<>> /\ last_counter = None /\ safety_clicks = 0
  /\ blocks = <<>> /\ bi = 1 /\ b = None /\ pr = None /\ counter = None
  /\ exit_line = 0
  /\ sections = <<>> /\ json_sections = <<>> /\ csv_rows = <<>>
  /\ console = <<>>
  /\ reads = <<None>> /\ click_calls = 0
  /\ stand_nodes = <<>> /\ next_call = None
  /\ page_anchors = {}
  /\ page_nodes = 0
  /\ page_nexts \in {{v} : v \in AllClickViews}
  /\ page_counters = BlindViews
  /\ page_limit = 1

(***************************************************************************)
(* main                                                                    *)
(***************************************************************************)
\* line 217
Extract ==
  /\ pc = "extract"
  /\ \E anchors \in AnchorLists(page_anchors, page_nodes) :
       /\ stand_nodes' = anchors
       /\ blocks' = get_project_blocks(anchors)
  /\ bi' = 1
  /\ pc' = "parse"
  /\ UNCHANGED << all_projects, last_counter, safety_clicks, b, pr, counter,
                  exit_line, outputs, page, reads, click_calls, next_call >>

\* lines 218-226: one pass of the for loop
ParseBlock ==
  /\ pc = "parse"
  /\ bi <= Len(blocks)
  /\ b' = blocks[bi]
  /\ pr' = ParseOf[blocks[bi]]
  /\ all_projects' = Upsert(all_projects, ParseOf[blocks[bi]])
  /\ bi' = bi + 1
  /\ UNCHANGED << pc, last_counter, safety_clicks, blocks, counter, exit_line,
                  outputs, page, reads, click_calls, stand_nodes, next_call >>

\* the counters of the first MaxTrace iterations; dropped after that
Observe(c) ==
  IF Len(reads) = safety_clicks /\ Len(reads) < MaxTrace
  THEN Append(reads, c) ELSE <<>>

\* lines 229-230, once the for loop is over
ReadCounter ==
  /\ pc = "parse"
  /\ LoopOver(blocks, bi)
  /\ \E view \in page_counters :
       /\ counter' = parse_counter(first_visible_text(view))
       /\ reads' = Observe(parse_counter(first_visible_text(view)))
  /\ pc' = "check"
  /\ UNCHANGED << all_projects, last_counter, safety_clicks, blocks, bi, b, pr,
                  exit_line, outputs, page, click_calls, stand_nodes,
                  next_call >>

Break(line) == pc' = "close" /\ exit_line' = line

\* lines 233-240
CheckCounter ==
  /\ pc = "check"
  /\ IF CounterKnown(counter)
     THEN IF Stalled(last_counter, counter)
          THEN Break(237) /\ UNCHANGED last_counter
          ELSE /\ last_counter' = counter
               /\ IF TotalReached(counter)
                  THEN Break(240)
                  ELSE pc' = "click" /\ UNCHANGED exit_line
     ELSE pc' = "click" /\ UNCHANGED << last_counter, exit_line >>
  /\ UNCHANGED << all_projects, safety_clicks, blocks, bi, b, pr, counter,
                  outputs, page, reads, click_calls, stand_nodes, next_call >>

\* lines 243-245
Click ==
  /\ pc = "click"
  /\ \E view \in IF safety_clicks < page_limit THEN page_nexts ELSE DeadViews :
       /\ next_call' = click_first_available(view)
       /\ IF click_first_available(view).moved
          THEN pc' = "safety" /\ UNCHANGED exit_line
          ELSE Break(245)
  /\ click_calls' = click_calls + 1
  /\ UNCHANGED << all_projects, last_counter, safety_clicks, blocks, bi, b, pr,
                  counter, outputs, page, reads, stand_nodes >>

\* lines 247-252
Safety ==
  /\ pc = "safety"
  /\ safety_clicks' = safety_clicks + 1
  /\ next_call' = None
  /\ IF SafetyExceeded(safety_clicks + 1)
     THEN Break(249)
     ELSE pc' = "extract" /\ UNCHANGED exit_line
  /\ UNCHANGED << all_projects, last_counter, blocks, bi, b, pr, counter,
                  outputs, page, reads, click_calls, stand_nodes >>

\* lines 254-264
Group ==
  /\ pc = "close"
  /\ sections' = SortSections(GroupByType(Values(all_projects), <<>>))
  /\ pc' = "output"
  /\ UNCHANGED << all_projects, last_counter, safety_clicks, blocks, bi, b, pr,
                  counter, exit_line, json_sections, csv_rows, console, page,
                  reads, click_calls, stand_nodes, next_call >>

\* lines 266-306
Output ==
  /\ pc = "output"
  /\ json_sections' = StableSort(sections, "key")
  /\ csv_rows' = CsvRows(StableSort(sections, "key"))
  /\ console' = ConsoleLines(StableSort(sections, "key"))
  /\ pc' = "exit"
  /\ UNCHANGED << all_projects, last_counter, safety_clicks, blocks, bi, b, pr,
                  counter, exit_line, sections, page, reads, click_calls,
                  stand_nodes, next_call >>

Next ==
  \/ Extract
  \/ ParseBlock
  \/ ReadCounter
  \/ CheckCounter
  \/ Click
  \/ Safety
  \/ Group
  \/ Output

Spec == Init /\ [][Next]_vars

SpecAgg == InitAgg /\ [][Next]_vars

SpecView == InitView /\ [][Next]_vars

SpecFair == InitFair /\ [][Next]_vars /\ WF_vars(Next)

SpecParse == InitParse /\ [][ParseBlock]_vars

SpecBlocks == InitBlocks /\ [][Extract]_vars

SpecClick == InitClick /\ [][Click]_vars

(***************************************************************************)
(* The stop conditions of the loop                                         *)
(***************************************************************************)
Halted == exit_line # 0

\* the counters read so far are (1,N), (2,N), ... with N = MaxTotal
CountingUp ==
  /\ Len(reads) >= 1
  /\ \A i \in 1..Len(reads) : reads[i] = <<i, MaxTotal>>

\* C1: when the counter reads (1,N), (2,N), ..., (N,N) and no advance click
\* fails, the loop does not halt before (N,N) is read, and the iteration
\* that reads (N,N) halts at the test current >= total without calling
\* click_first_available: N-1 clicks were made and N-1 calls were made.
C1_HaltsAtTotal ==
  (CountingUp /\ exit_line # 245) =>
    /\ Halted => exit_line = 240 /\ Len(reads) = MaxTotal
    /\ (Len(reads) = MaxTotal /\ pc # "check") =>
         /\ exit_line = 240
         /\ safety_clicks = MaxTotal - 1
         /\ click_calls = MaxTotal - 1

C1_Witness ==
  /\ pc = "exit" /\ exit_line = 240
  /\ CountingUp /\ Len(reads) = MaxTotal
  /\ click_calls = MaxTotal - 1

\* C2: when the counter read in an iteration is known and equal to the
\* counter read in the iteration before, that iteration halts at the stall
\* test without calling click_first_available, whatever current and total.
C2_StallHalts ==
  LET n == Len(reads)
  IN (n >= 2 /\ reads[n] # None /\ reads[n] = reads[n - 1] /\ pc # "check") =>
       /\ exit_line = 237
       /\ click_calls = n - 1
       /\ safety_clicks = n - 1

C2_Witness ==
  /\ pc = "exit" /\ exit_line = 237
  /\ reads = << <<1, MaxTotal>>, <<1, MaxTotal>> >>
  /\ click_calls = 1

\* the project in d under the key of p is p
Holds(d, p) == \E j \in 1..Len(d) : d[j].key = KeyOf(p) /\ d[j].val = p

\* block i is the last block of the pass with its project's key
LastOfKey(i) ==
  \A j \in (i + 1)..Len(blocks) :
     parse_project_block(blocks[j]) # None =>
       KeyOf(parse_project_block(blocks[j])) # KeyOf(parse_project_block(blocks[i]))

\* C3: when the first call of click_first_available returns False, the loop
\* has halted with no advance click made, after one extraction pass, and the
\* social projects parsed in that pass are in all_projects.
C3_NoAdvanceHalts ==
  (exit_line = 245 /\ click_calls = 1) =>
    /\ pc \in {"close", "output", "exit"}
    /\ safety_clicks = 0
    /\ Len(reads) = 1
    /\ \A i \in 1..Len(blocks) :
         LET p == parse_project_block(blocks[i])
         IN (p # None /\ p.category = SOCIAL_CATEGORY /\ LastOfKey(i)) =>
              Holds(all_projects, p)

C3_Witness ==
  /\ pc = "exit" /\ exit_line = 245 /\ click_calls = 1
  /\ Len(blocks) = 2 /\ Len(all_projects) = 2
  /\ reads = << <<1, MaxTotal>> >>

\* C4: the loop always ends, whatever the page shows, and the number of
\* advance clicks is never more than one above the safety ceiling.
C4_Terminates ==
  /\ <>(pc = "exit")
  /\ [](safety_clicks <= SafetyCeiling + 1)

\* the counter was never readable, every click worked, and the loop ended
C4_Witness ==
  /\ pc = "exit" /\ exit_line = 249
  /\ last_counter = None
  /\ safety_clicks = SafetyCeiling + 1

(***************************************************************************)
(* The aggregation map                                                     *)
(***************************************************************************)
\* a step of the for loop of line 218
ParseStep == pc = "parse" /\ bi <= Len(blocks) /\ bi' = bi + 1

\* the values stored in d under key k
Stored(d, k) == {d[i].val : i \in {j \in 1..Len(d) : d[j].key = k}}

KeysOf(d) == {d[i].key : i \in 1..Len(d)}

\* C5: all_projects never holds two entries for one key, and an accepted
\* project replaces whatever was stored under its key (title, stand_number,
\* school) and touches no other key: the dict holds one project per key of
\* the accepted projects, the one upserted last.
C5_LastWriteWins ==
  [][ ParseStep =>
        /\ Cardinality(KeysOf(all_projects')) = Len(all_projects')
        /\ (pr' # None /\ pr'.category = SOCIAL_CATEGORY) =>
             /\ Stored(all_projects', KeyOf(pr')) = {pr'}
             /\ \A k \in (KeysOf(all_projects) \cup KeysOf(all_projects'))
                           \ {KeyOf(pr')} :
                  Stored(all_projects', k) = Stored(all_projects, k) ]_vars

\* CardA then CardA2 were upserted: one entry, with the county of CardA2
C5_Witness ==
  /\ Len(blocks) = 2 /\ bi = 3
  /\ parse_project_block(blocks[1]).county = <<"Dublin">>
  /\ pr # None /\ pr.county = <<"Cork">>
  /\ KeyOf(parse_project_block(blocks[1])) = KeyOf(pr)
  /\ Len(all_projects) = 1
  /\ all_projects[1].val.county = <<"Cork">>

\* C6: a parsed project of another category than SOCIAL_CATEGORY leaves
\* all_projects as it was, and every stored project has that category.
C6_FilterNoOp ==
  /\ [](\A i \in 1..Len(all_projects) :
          all_projects[i].val.category = SOCIAL_CATEGORY)
  /\ [][ (ParseStep /\ pr' # None /\ pr'.category # SOCIAL_CATEGORY) =>
           all_projects' = all_projects ]_vars

\* CardT was handled while its key was stored with the social category
C6_Witness ==
  /\ pr # None /\ pr.category = <<"Technology">>
  /\ Stored(all_projects, KeyOf(pr)) # {}
  /\ \A p \in Stored(all_projects, KeyOf(pr)) : p.category = SOCIAL_CATEGORY

\* C7: the project_type of a parsed project is "Group" or "Individual", and
\* so is every section key of the grouped view.
C7_TypeNormalized ==
  /\ pr # None => pr.project_type \in {<<"Group">>, <<"Individual">>}
  /\ \A i \in 1..Len(json_sections) :
       json_sections[i].key \in {<<"Group">>, <<"Individual">>}

(***************************************************************************)
(* The grouped view                                                        *)
(***************************************************************************)
\* the places of project p in the sections written to the JSON file
Places(p) ==
  {<<i, j>> \in (1..Len(json_sections)) \X (1..Len(all_projects)) :
     j <= Len(json_sections[i].items) /\ json_sections[i].items[j] = p}

\* the position of project p in all_projects
Encounter(p) == CHOOSE i \in 1..Len(all_projects) : all_projects[i].val = p

\* C8: once the outputs are written, every stored project is in exactly one
\* section, the one of its project_type, and the sections hold nothing else;
\* sections are in ascending key order; inside a section stand numbers do
\* not decrease and equal stand numbers keep the order of all_projects; the
\* CSV rows follow the same order.
C8_GroupedView ==
  pc = "exit" =>
    /\ \A i \in 1..Len(all_projects) :
         LET p == all_projects[i].val
         IN /\ Cardinality(Places(p)) = 1
            /\ \A pl \in Places(p) : json_sections[pl[1]].key = p.project_type
    /\ TotalItems(json_sections) = Len(all_projects)
    /\ \A i, j \in 1..Len(json_sections) :
         i < j => StrLess(json_sections[i].key, json_sections[j].key)
    /\ \A i \in 1..Len(json_sections) :
         \A j, k \in 1..Len(json_sections[i].items) :
           LET x == json_sections[i].items[j]
               y == json_sections[i].items[k]
           IN j < k =>
                /\ x.stand_number <= y.stand_number
                /\ x.stand_number = y.stand_number =>
                     Encounter(x) < Encounter(y)
    /\ Len(csv_rows) = Len(all_projects)
    /\ \A j, k \in 1..Len(csv_rows) :
         j < k =>
           \/ StrLess(csv_rows[j].project_type, csv_rows[k].project_type)
           \/ /\ csv_rows[j].project_type = csv_rows[k].project_type
              /\ csv_rows[j].stand_number <= csv_rows[k].stand_number

\* four projects: the section met first is written last, and the section
\* written first holds two projects of one stand number and a smaller one
\* that was met after them
C8_Witness ==
  /\ pc = "exit"
  /\ Len(all_projects) = 4
  /\ all_projects[1].val.project_type = <<"Individual">>
  /\ all_projects[4].val.stand_number = 1
  /\ Len(json_sections) = 2
  /\ json_sections[1].key = <<"Group", "SP", "(2)">>
  /\ Len(json_sections[1].items) = 3
  /\ json_sections[1].items[2].stand_number = json_sections[1].items[3].stand_number

(***************************************************************************)
(* Rejected blocks                                                         *)
(***************************************************************************)
\* no casing of the label of key is in the text
LacksLabel(t, key) == \A i \in 1..Len(t) : t[i] \notin LabelForms[key]

MissingLabel(t) == \E n \in 1..Len(FieldKeys) : LacksLabel(t, FieldKeys[n])

\* the rest of the line after "Stand number:" is not an integer
NonNumericStand(t) ==
  \/ SearchText(t, "stand_number", 1) = None
  \/ ~IsInt(clean_line(SearchText(t, "stand_number", 1)[1]))

\* no "Stand number:" is followed, after whitespace, by a digit
NoDigitAfterStand(t) ==
  \A i \in 1..Len(t) :
     t[i] \in LabelForms["stand_number"] =>
       \/ SkipWS(t, i + 1) > Len(t)
       \/ ~IsDigit(t[SkipWS(t, i + 1)])

GroupedView(d) == StableSort(SortSections(GroupByType(Values(d), <<>>)), "key")

CleanOutput(d) ==
  <<GroupedView(d), CsvRows(GroupedView(d)), ConsoleLines(GroupedView(d))>>

\* C10: a run whose loop ended at the stall test or at the safety test
\* writes or prints something that a run ended at current >= total with the
\* same projects does not.
C10_StallIsVisible ==
  (pc = "exit" /\ exit_line \in {237, 249}) =>
    <<json_sections, csv_rows, console>> # CleanOutput(all_projects)

(***************************************************************************)
(* get_project_blocks                                                      *)
(***************************************************************************)
\* the levels of the chain of node that page.evaluate looks at and that
\* hold all five labels
Levels(node) ==
  {i \in 1..Len(node.chain) : i <= AncestorDepth /\ hasAllLabels(node.chain[i])}

\* the anchor gives a handle, evaluates and has a qualifying ancestor
Qualifies(node) == node.kind = "ok" /\ Levels(node) # {}

\* the stripped text of the nearest qualifying ancestor
BlockText(node) == Strip(node.chain[Nth(Levels(node), 1)])

\* the first anchor of stand_nodes that gives the text t
FirstAt(t) ==
  Nth({k \in 1..Len(stand_nodes) :
         Qualifies(stand_nodes[k]) /\ BlockText(stand_nodes[k]) = t}, 1)

\* C11: the blocks returned by one call of get_project_blocks are pairwise
\* different and not empty, each is the stripped text of an anchor of the
\* call, and they are in the order in which their texts first occur among
\* the anchors.
C11_NoEqualBlocks ==
  pc = "parse" =>
    /\ \A i, j \in 1..Len(blocks) : i # j => blocks[i] # blocks[j]
    /\ \A i \in 1..Len(blocks) :
         /\ blocks[i] # <<>>
         /\ \E k \in 1..Len(stand_nodes) :
              Qualifies(stand_nodes[k]) /\ BlockText(stand_nodes[k]) = blocks[i]
    /\ \A i, j \in 1..Len(blocks) :
         i < j => FirstAt(blocks[i]) < FirstAt(blocks[j])

\* the first and the third anchor have the same text up to whitespace
\* around it; the text is returned once, before the text of the second
C11_Witness ==
  /\ pc = "parse" /\ Len(stand_nodes) = 3
  /\ \A k \in 1..3 : Qualifies(stand_nodes[k])
  /\ stand_nodes[1].chain # stand_nodes[3].chain
  /\ BlockText(stand_nodes[1]) = BlockText(stand_nodes[3])
  /\ BlockText(stand_nodes[1]) # BlockText(stand_nodes[2])
  /\ blocks = <<BlockText(stand_nodes[1]), BlockText(stand_nodes[2])>>

(***************************************************************************)
(* The stall test and the order of the loop body                           *)
(***************************************************************************)
\* C12: the loop halts at the stall test only when the counter read in this
\* iteration is known and equal to the counter read in the iteration before;
\* after the reads (x), unknown, (x) it does not halt as stalled.
C12_StallOnlyOnConsecutive ==
  LET n == Len(reads)
  IN (exit_line = 237 /\ n >= 1) =>
       (n >= 2 /\ reads[n] # None /\ reads[n] = reads[n - 1])

\* C13: an advance click is made only in an iteration in which no stop
\* condition fires: once click_first_available has clicked, the loop goes on
\* to another extraction pass and does not end.
C13_ClickThenExtract == [][pc = "safety" => pc' = "extract"]_vars

\* every block of the current pass has been handled and the social projects
\* parsed from them are in all_projects
PageStored ==
  /\ bi = Len(blocks) + 1
  /\ \A i \in 1..Len(blocks) :
       LET p == ParseOf[blocks[i]]
       IN (/\ p # None /\ p.category = SOCIAL_CATEGORY
           /\ \A j \in (i + 1)..Len(blocks) :
                ParseOf[blocks[j]] # None => KeyOf(ParseOf[blocks[j]]) # KeyOf(p))
          => Holds(all_projects, p)

\* C14: in every iteration the counter is read, and the loop is left, only
\* after every block of the pass was parsed and upserted; when the loop has
\* halted at a counter test or for lack of an advance control, the projects
\* of the page it halted on are in all_projects.
C14_PageBeforeStop ==
  /\ [][(pc' # pc /\ pc' \in {"check", "close"}) => PageStored]_vars
  /\ [](exit_line \in {237, 240, 245} => PageStored)

\* the first page shows N / N and two cards: both are stored, no click made
C14_Witness ==
  /\ pc = "exit" /\ exit_line = 240 /\ click_calls = 0
  /\ reads = << <<MaxTotal, MaxTotal>> >>
  /\ Len(blocks) = 2 /\ Len(all_projects) = 2

(***************************************************************************)
(* click_first_available                                                   *)
(***************************************************************************)
\* what the page does for each candidate of the call being made
NextView == CHOOSE v \in page_nexts : TRUE

\* the candidates that can be located, become visible and take the click
Clickable == {i \in 1..NumNextSelectors : NextView[i] = "clicked"}

\* C15: a call of click_first_available returns True exactly when some
\* candidate can be clicked; it then has clicked the first such candidate and
\* no other and tried no candidate after it; when every candidate is absent,
\* times out or raises, it has tried them all, clicked none and returned
\* False; in both cases main goes on with the returned value.
C15_FirstAvailable ==
  [][ pc = "click" =>
        /\ next_call'.moved = (Clickable # {})
        /\ Len(next_call'.clicked) <= 1
        /\ Clickable # {} =>
             /\ next_call'.clicked = <<Nth(Clickable, 1)>>
             /\ next_call'.tried = Nth(Clickable, 1)
             /\ pc' = "safety"
        /\ Clickable = {} =>
             /\ next_call'.clicked = <<>>
             /\ next_call'.tried = NumNextSelectors
             /\ pc' = "close" /\ exit_line' = 245 ]_vars

\* the first candidate raised, the second timed out, the third and the fifth
\* could be clicked: the third was clicked, the fifth not tried
C15_Witness ==
  /\ pc = "safety"
  /\ NextView[1] = "error" /\ NextView[2] = "timeout"
  /\ NextView[3] = "clicked" /\ NextView[5] = "clicked"
  /\ next_call = [moved |-> TRUE, tried |-> 3, clicked |-> <<3>>]

\* C16: an anchor that gives no handle, raises in page.evaluate or has no
\* qualifying ancestor is skipped and nothing else: the call returns, every
\* block returned comes from an anchor that did not fail, and the text of
\* every anchor that did not fail, before or after a failing one, is returned.
C16_FailureSkipsOneAnchor ==
  /\ [][pc = "extract" => pc' = "parse"]_vars
  /\ [](pc = "parse" =>
          {blocks[i] : i \in 1..Len(blocks)} =
            {BlockText(stand_nodes[k]) :
               k \in {j \in 1..Len(stand_nodes) : Qualifies(stand_nodes[j])}})

\* page.evaluate raised for the second of three anchors; the blocks of the
\* first and the third were returned
C16_Witness ==
  /\ pc = "parse" /\ Len(stand_nodes) = 3
  /\ Qualifies(stand_nodes[1]) /\ stand_nodes[2].kind = "error"
  /\ Qualifies(stand_nodes[3])
  /\ BlockText(stand_nodes[1]) # BlockText(stand_nodes[3])
  /\ blocks = <<BlockText(stand_nodes[1]), BlockText(stand_nodes[3])>>

(***************************************************************************)
(* Keys and values of the aggregation map                                  *)
(***************************************************************************)
\* C17: no step of the traversal removes a key from all_projects.
C17_KeysOnlyGrow ==
  [][KeysOf(all_projects) \subseteq KeysOf(all_projects')]_vars

\* the second page showed only a card of another category, with the key of
\* a stored project; the two projects of the first page are still stored
C17_Witness ==
  /\ pc = "exit" /\ safety_clicks = 1
  /\ Len(blocks) = 1 /\ pr # None /\ pr.category = <<"Technology">>
  /\ KeyOf(pr) \in KeysOf(all_projects)
  /\ Len(all_projects) = 2

\* the text fields of a project
TextFields == {"county", "school", "category", "project_type"}

AllLabels == UNION {LabelForms[k] : k \in DOMAIN LabelForms}

\* C18: no field value of a parsed project is the text of a label: a block in
\* which a label is followed by the next label without a value is rejected.
C18_ValueOfOwnLabel ==
  pr # None =>
    \A f \in TextFields : \A i \in 1..Len(pr[f]) : pr[f][i] \notin AllLabels

\* C19: every entry of all_projects is stored under the title, the stand
\* number and the school of its own project, and the stand number is a
\* natural number.
C19_KeyMatchesRecord ==
  \A i \in 1..Len(all_projects) :
     LET r == all_projects[i].val
     IN /\ all_projects[i].key = <<r.title, r.stand_number, r.school>>
        /\ r.stand_number \in Nat

\* the card printed with stand number "03" is stored under stand number 3,
\* next to a project of another school
C19_Witness ==
  /\ Len(all_projects) = 2
  /\ \E i \in 1..2 :
       /\ all_projects[i].val.county = <<"Cork">>
       /\ all_projects[i].key = <<<<"Alpha">>, 3, <<"StX">>>>
  /\ \E i \in 1..2 : all_projects[i].key[3] = <<"StY">>
====
